---- MODULE Spec2Model ----
(***************************************************************************)
(* Model of backend/server.py of the Smart Health Surveillance API: the    *)
(* start-up load of the CatBoost artifact, the /predict handler with its   *)
(* rule-based fallback, the /notify handler and the /predictions/history   *)
(* handler, over the two MongoDB collections they use.                     *)
(*                                                                         *)
(* Floats are fixed-point: measurements in tenths (pH 6.5 is 65),          *)
(* confidences in hundredths (0.85 is 85).  NaN is a separate value for    *)
(* which every ordered comparison is false, as in IEEE 754.                *)
(*                                                                         *)
(* A handler runs without interruption up to its await; the insert it      *)
(* awaits and the rest of the handler are a second step, so requests       *)
(* interleave exactly at the await of server.py.                           *)
(***************************************************************************)
EXTENDS Integers, Sequences, FiniteSets, TLC

VARIABLES
    artifact,       \* outbreak_predictor.cbm on disk: "absent", "corrupt", "valid"
    model,          \* the module global `model`: "Unset" before start-up, None, "CatBoost"
    fitted,         \* what the loaded classifier answers, per measurement asked so far
    clock,          \* datetime.utcnow(), in the milliseconds BSON keeps
    nextId,         \* source of fresh uuid4 values
    calls,          \* number of classifier invocations so far (history variable)
    classified,     \* number of classifications that returned a result (history variable)
    lost,           \* number of prediction inserts that failed (history variable)
    inflight,       \* handlers suspended at `await ...insert_one(...)`
    predictions,    \* db.predictions, in insertion (natural) order
    notifications,  \* db.notifications, in insertion (natural) order
    resp            \* the response the last step sent, NoResponse if it sent none

vars == <<artifact, model, fitted, clock, nextId, calls, classified, lost, inflight,
          predictions, notifications, resp>>

----------------------------------------------------------------------------
(* Bounds of the model. *)

\* Requests that reach the classifier or build a record, and the instants
\* they may fall on, in the request-level specification.
MaxRequests == 2
MaxClock == MaxRequests - 1

\* Requests of the rule-level specification.
MaxRuleRequests == 1

\* Requests of the history specification, and its instants.
MaxHistRequests == 3
MaxHistClock == MaxHistRequests - 1

\* Records of the limit specification: more than the history's limit.
MaxLimitRecords == 52

----------------------------------------------------------------------------
(* Values. *)

None == "None"
NaN == -1

Min(a, b) == IF a < b THEN a ELSE b

\* Python float comparison: false as soon as one side is NaN.
FloatLt(a, b) == a # NaN /\ b # NaN /\ a < b
FloatGt(a, b) == a # NaN /\ b # NaN /\ a > b

\* Bearer tokens a client may send: one signed token per user, one signed
\* token with no "sub" claim, and one that jwt.decode rejects.
Tokens == {"tok_alice", "tok_bob", "tok_nosub", "tok_bad"}

Unauthorized == "401"

\* verify_token without the test `username is None`: a signed token with no
\* "sub" claim passes with the username None.  The property of C13 tells it
\* from the code's.
verify_token_no_sub_test(credentials) ==
    CASE credentials = "tok_alice" -> "alice"
      [] credentials = "tok_bob" -> "bob"
      [] credentials = "tok_nosub" -> None
      [] OTHER -> Unauthorized

verify_token(credentials) ==
    CASE credentials = "tok_alice" -> "alice"
      [] credentials = "tok_bob" -> "bob"
      [] OTHER -> Unauthorized

\* A PredictionRequest with the four fields the rules read; the other
\* thirteen are those of the test suite's poor-water payload.
Measurement(ph, turbidity, o2, nh4) ==
    [Location |-> "Rural_Area", Source_Type |-> "Untreated_Water",
     NH4 |-> nh4, BSK5 |-> 150, Suspended |-> 500, O2 |-> o2, NO3 |-> 100,
     NO2 |-> 20, SO4 |-> 1000, PO4 |-> 50, CL |-> 500, pH |-> ph,
     Turbidity |-> turbidity, Temperature |-> 300,
     Year |-> 2024, Month |-> 12, Day |-> 15]

ScenarioA == Measurement(72, 20, 85, 5)
ScenarioB == Measurement(55, 250, 20, 50)
ScenarioC == Measurement(55, 250, 80, 5)
ScenarioD == Measurement(55, 20, 80, 5)

\* The fields PredictionRequest declares, none with a default: lines 73-93.
RequiredFields ==
    {"Location", "Source_Type", "NH4", "BSK5", "Suspended", "O2", "NO3", "NO2",
     "SO4", "PO4", "CL", "pH", "Turbidity", "Temperature", "Year", "Month", "Day"}

\* A PredictionRequest that lets the body leave Day out; the property of
\* C11 tells it from the code's.
missing_fields_day_optional(body) == (RequiredFields \ {"Day"}) \ DOMAIN body

\* The required fields a JSON body has no value for.
missing_fields(body) == RequiredFields \ DOMAIN body

\* The model object built from a body.  A field with no value in the body
\* would be None; validation lets no such body through.
PredictionRequest(body) ==
    [f \in RequiredFields |-> IF f \in DOMAIN body THEN body[f] ELSE None]

\* The 422 response of the request validation, naming the fields it misses.
ValidationError(missing) ==
    [kind |-> "predict", status |-> 422, detail |-> "field required", loc |-> missing]

\* A body without the fields of `dropped`.
Without(body, dropped) == [f \in DOMAIN body \ dropped |-> body[f]]

\* The bodies of the validation specification: a measurement, the same with
\* any one field left out, and the body of the test suite, which has four
\* fields.
PartialBodies ==
    {Without(ScenarioC, {f}) : f \in RequiredFields}
        \cup {Without(ScenarioC, RequiredFields \ {"Location", "Source_Type", "NH4", "pH"})}

\* The measurements of the request-level specifications.
Requests == {ScenarioA, ScenarioC}

\* The measurements of the rule-level specification: every threshold, its
\* two neighbours, and NaN.
RuleGrid ==
    {Measurement(ph, tu, o2, nh4) :
        ph \in {64, 65, 66, 84, 85, 86, NaN}, tu \in {100, 101, NaN},
        o2 \in {49, 50, NaN}, nh4 \in {20, 21, NaN}}
        \cup {ScenarioA, ScenarioB, ScenarioC, ScenarioD}

----------------------------------------------------------------------------
(* Start-up: server.py lines 27-43. *)

\* load_model without the reset of the except clause: the classifier object
\* built before load_model() raised stays in `model`.  The property of C3
\* tells it from the code's.
load_model_no_reset(a) ==
    IF a = "absent" THEN None ELSE "CatBoost"

load_model(a) ==
    IF a = "valid" THEN "CatBoost"      \* exists() and load_model() returned
    ELSE None                           \* the else branch, or the except clause

----------------------------------------------------------------------------
(* predict_outbreak: the classification. *)

PH_LOW == 65
PH_HIGH == 85
TURBIDITY_MAX == 100
O2_MIN == 50
NH4_MAX == 20
RISK_THRESHOLD == 2
CONF_HIGH == 85
CONF_LOW == 75

Result(prediction, confidence) ==
    [raised |-> FALSE, prediction |-> prediction, confidence |-> confidence]

Raised == [raised |-> TRUE]

\* risk_factors with the turbidity test made inclusive (>= 10); the
\* property of C1 tells it from the code's.
risk_factors_inclusive(request) ==
    LET f1 == IF FloatLt(request.pH, PH_LOW) \/ FloatGt(request.pH, PH_HIGH)
              THEN 1 ELSE 0
        f2 == f1 + (IF request.Turbidity # NaN /\ request.Turbidity >= TURBIDITY_MAX
                    THEN 1 ELSE 0)
        f3 == f2 + (IF FloatLt(request.O2, O2_MIN) THEN 1 ELSE 0)
        f4 == f3 + (IF FloatGt(request.NH4, NH4_MAX) THEN 1 ELSE 0)
    IN f4

\* risk_factors with a fifth condition, on the oxygen demand (BSK5 > 10);
\* the property of C17 tells it from the code's.
risk_factors_bsk5(request) ==
    LET f1 == IF FloatLt(request.pH, PH_LOW) \/ FloatGt(request.pH, PH_HIGH)
              THEN 1 ELSE 0
        f2 == f1 + (IF FloatGt(request.Turbidity, TURBIDITY_MAX) THEN 1 ELSE 0)
        f3 == f2 + (IF FloatLt(request.O2, O2_MIN) THEN 1 ELSE 0)
        f4 == f3 + (IF FloatGt(request.NH4, NH4_MAX) THEN 1 ELSE 0)
        f5 == f4 + (IF FloatGt(request.BSK5, 100) THEN 1 ELSE 0)
    IN f5

\* lines 200-208
risk_factors(request) ==
    LET f1 == IF FloatLt(request.pH, PH_LOW) \/ FloatGt(request.pH, PH_HIGH)
              THEN 1 ELSE 0
        f2 == f1 + (IF FloatGt(request.Turbidity, TURBIDITY_MAX) THEN 1 ELSE 0)
        f3 == f2 + (IF FloatLt(request.O2, O2_MIN) THEN 1 ELSE 0)
        f4 == f3 + (IF FloatGt(request.NH4, NH4_MAX) THEN 1 ELSE 0)
    IN f4

\* A rule-based classification that shares its verdict between callers: a
\* request classified while a high-risk one is suspended at its insert comes
\* out high-risk too.  The property of C12 tells it from the code's.
mock_prediction_shared(request) ==
    IF \E ctx \in inflight : ctx.kind = "predict" /\ ctx.record.prediction = 1
    THEN Result(1, CONF_HIGH)
    ELSE Result(IF risk_factors(request) >= RISK_THRESHOLD THEN 1 ELSE 0,
                IF risk_factors(request) >= RISK_THRESHOLD THEN CONF_HIGH ELSE CONF_LOW)

\* lines 210-211
mock_prediction(request) ==
    Result(IF risk_factors(request) >= RISK_THRESHOLD THEN 1 ELSE 0,
           IF risk_factors(request) >= RISK_THRESHOLD THEN CONF_HIGH ELSE CONF_LOW)

\* What model.predict / model.predict_proba may answer for one input: a
\* class with the larger of the two class probabilities, or an exception.
ProbaValues == {95}

TrainedOutcomes ==
    {Result(p, c) : p \in {0, 1}, c \in ProbaValues} \cup {Raised}

\* risk_level with the test on the wrong class; the property of C4 tells it
\* from the code's.
risk_level_swapped(prediction) == IF prediction = 0 THEN "HIGH" ELSE "LOW"

\* lines 213-219
risk_level(prediction) == IF prediction = 1 THEN "HIGH" ELSE "LOW"

HighMessage == "High Risk of Water-Borne Outbreak detected in this area. Stay cautious!"
LowMessage == "Water quality parameters appear normal. Low outbreak risk detected."

message(prediction) == IF prediction = 1 THEN HighMessage ELSE LowMessage

\* water_parameters with nitrate and nitrite in each other's place; the
\* property of C16 tells it from the code's.
water_parameters_swapped(request) ==
    [Location |-> request.Location, Source_Type |-> request.Source_Type,
     NH4 |-> request.NH4, BSK5 |-> request.BSK5, Suspended |-> request.Suspended,
     O2 |-> request.O2, NO3 |-> request.NO2, NO2 |-> request.NO3,
     SO4 |-> request.SO4, PO4 |-> request.PO4, CL |-> request.CL,
     pH |-> request.pH, Turbidity |-> request.Turbidity,
     Temperature |-> request.Temperature,
     Year |-> request.Year, Month |-> request.Month, Day |-> request.Day]

\* lines 169-187
water_parameters(request) ==
    [Location |-> request.Location, Source_Type |-> request.Source_Type,
     NH4 |-> request.NH4, BSK5 |-> request.BSK5, Suspended |-> request.Suspended,
     O2 |-> request.O2, NO3 |-> request.NO3, NO2 |-> request.NO2,
     SO4 |-> request.SO4, PO4 |-> request.PO4, CL |-> request.CL,
     pH |-> request.pH, Turbidity |-> request.Turbidity,
     Temperature |-> request.Temperature,
     Year |-> request.Year, Month |-> request.Month, Day |-> request.Day]

\* lines 222-232
prediction_record(id, username, request, result, now) ==
    [id |-> id, username |-> username, location |-> request.Location,
     source_type |-> request.Source_Type, prediction |-> result.prediction,
     confidence |-> result.confidence,
     risk_level |-> risk_level(result.prediction), timestamp |-> now,
     water_parameters |-> water_parameters(request)]

\* lines 235-240
PredictionResponse(result) ==
    [kind |-> "predict", status |-> 200, prediction |-> result.prediction,
     confidence |-> result.confidence,
     risk_level |-> risk_level(result.prediction),
     message |-> message(result.prediction)]

\* lines 242-247: the except clause; `cause` is str(e) in the detail.
PredictionFailed(cause) ==
    [kind |-> "predict", status |-> 500, detail |-> "Prediction failed", cause |-> cause]

\* verify_token's HTTPException, lines 122-133
NotAuthenticated(kind) ==
    [kind |-> kind, status |-> 401, detail |-> "Could not validate credentials"]

NoResponse == [kind |-> "none", status |-> 0]

----------------------------------------------------------------------------

Init ==
    /\ artifact \in {"absent", "corrupt", "valid"}
    /\ model = "Unset"
    /\ fitted = <<>>
    /\ clock = 0
    /\ nextId = 1
    /\ calls = 0
    /\ classified = 0
    /\ lost = 0
    /\ inflight = {}
    /\ predictions = <<>>
    /\ notifications = <<>>
    /\ resp = NoResponse

\* Module import: lines 27-43.
Startup ==
    /\ model = "Unset"
    /\ model' = load_model(artifact)
    /\ resp' = NoResponse
    /\ UNCHANGED <<artifact, fitted, clock, nextId, calls, classified, lost, inflight,
                   predictions, notifications>>

\* Time passes.
Tick ==
    /\ clock' = clock + 1
    /\ resp' = NoResponse
    /\ UNCHANGED <<artifact, model, fitted, nextId, calls, classified, lost, inflight,
                   predictions, notifications>>

\* What the classifier in use may answer for `request`: lines 189-211.  The
\* loaded model is a fixed function of its input, unknown until asked; a
\* CatBoostClassifier whose load_model failed is not fitted and raises.
Answers(request) ==
    IF model = None THEN {mock_prediction(request)}
    ELSE IF artifact # "valid" THEN {Raised}
    ELSE IF request \in DOMAIN fitted THEN {fitted[request]}
    ELSE TrainedOutcomes

\* An insert that replaces the newest document of the collection, as an
\* upsert on a key that does not tell the documents apart would; the
\* property of C9 tells it from insert_one.
insert_replacing(collection, document) ==
    IF collection = <<>> THEN <<document>>
    ELSE [collection EXCEPT ![Len(collection)] = document]

\* An insert that is sent twice; the property of C5 tells it from insert_one.
insert_twice(collection, document) == Append(Append(collection, document), document)

\* Collection.insert_one: the document is added after those already there.
insert_one(collection, document) == Append(collection, document)

\* An except clause that swallows the error and answers low risk; the
\* property of C10 tells it from the code's.
classification_failed_swallowed(request) ==
    [kind |-> "predict", status |-> 200, prediction |-> 0, confidence |-> CONF_LOW,
     risk_level |-> "LOW", message |-> LowMessage]

\* The except clause on an exception of the classification: lines 242-247.
classification_failed(request) == PredictionFailed("classification")

\* The except clause on an exception of insert_one: lines 242-247.
insert_failed(ctx) == PredictionFailed("storage")

\* POST /api/predict up to `await db.predictions.insert_one(...)`:
\* lines 165-233.  A suspended handler keeps the credentials and the body it
\* was called with, for the properties to read.
PredictCall(credentials, body) ==
    LET username == verify_token(credentials)
        request == PredictionRequest(body) IN
    /\ model # "Unset"
    /\ IF username = Unauthorized
       THEN /\ resp' = NotAuthenticated("predict")
            /\ UNCHANGED <<fitted, nextId, calls, classified, inflight>>
       ELSE IF missing_fields(body) # {}
       THEN /\ resp' = ValidationError(missing_fields(body))
            /\ UNCHANGED <<fitted, nextId, calls, classified, inflight>>
       ELSE /\ \E result \in Answers(request) :
                 /\ calls' = calls + 1
                 /\ fitted' = IF model = None \/ artifact # "valid"
                              THEN fitted ELSE fitted @@ (request :> result)
                 /\ IF result.raised
                    THEN /\ resp' = classification_failed(request)
                         /\ UNCHANGED <<nextId, classified, inflight>>
                    ELSE /\ classified' = classified + 1
                         /\ nextId' = nextId + 1
                         /\ inflight' = inflight \cup
                              {[kind |-> "predict",
                                credentials |-> credentials,
                                body |-> body,
                                record |-> prediction_record(nextId, username,
                                                             request, result, clock),
                                response |-> PredictionResponse(result)]}
                         /\ resp' = NoResponse
    /\ UNCHANGED <<artifact, model, clock, lost, predictions, notifications>>

\* insert_one ends and the handler resumes: lines 233-247.
PredictReturn(ctx, stored) ==
    /\ ctx \in inflight
    /\ ctx.kind = "predict"
    /\ inflight' = inflight \ {ctx}
    /\ IF stored
       THEN /\ predictions' = insert_one(predictions, ctx.record)
            /\ lost' = lost
            /\ resp' = ctx.response
       ELSE /\ predictions' = predictions
            /\ lost' = lost + 1
            /\ resp' = insert_failed(ctx)
    /\ UNCHANGED <<artifact, model, fitted, clock, nextId, calls, classified,
                   notifications>>

----------------------------------------------------------------------------
(* trigger_notification: lines 249-274. *)

NotificationRequests ==
    {[location |-> "Rural_Area", risk_level |-> "HIGH", message |-> "Boil water"]}

\* notification_record with the tier and the message in each other's place;
\* the property of C14 tells it from the code's.
notification_record_swapped(id, username, request, now) ==
    [id |-> id, location |-> request.location, risk_level |-> request.message,
     message |-> request.risk_level, triggered_by |-> username, timestamp |-> now]

\* lines 254-261
notification_record(id, username, request, now) ==
    [id |-> id, location |-> request.location, risk_level |-> request.risk_level,
     message |-> request.message, triggered_by |-> username, timestamp |-> now]

\* lines 264-268
NotificationResponse(record) ==
    [kind |-> "notify", status |-> 200, result |-> "success",
     message |-> "Notification triggered successfully",
     notification_id |-> record.id]

\* lines 269-274
NotificationFailed ==
    [kind |-> "notify", status |-> 500, detail |-> "Notification failed",
     cause |-> "storage"]

\* POST /api/notify up to `await db.notifications.insert_one(...)`.
NotifyCall(credentials, request) ==
    LET username == verify_token(credentials) IN
    /\ model # "Unset"
    /\ IF username = Unauthorized
       THEN /\ resp' = NotAuthenticated("notify")
            /\ UNCHANGED <<nextId, inflight>>
       ELSE /\ nextId' = nextId + 1
            /\ inflight' = inflight \cup
                 {[kind |-> "notify",
                   credentials |-> credentials,
                   request |-> request,
                   record |-> notification_record(nextId, username, request, clock)]}
            /\ resp' = NoResponse
    /\ UNCHANGED <<artifact, model, fitted, clock, calls, classified, lost,
                   predictions, notifications>>

\* insert_one ends and the handler resumes: lines 262-274.
NotifyReturn(ctx, stored) ==
    /\ ctx \in inflight
    /\ ctx.kind = "notify"
    /\ inflight' = inflight \ {ctx}
    /\ IF stored
       THEN /\ notifications' = insert_one(notifications, ctx.record)
            /\ resp' = NotificationResponse(ctx.record)
       ELSE /\ notifications' = notifications
            /\ resp' = NotificationFailed
    /\ UNCHANGED <<artifact, model, fitted, clock, nextId, calls, classified, lost,
                   predictions>>

----------------------------------------------------------------------------
(* get_prediction_history: lines 276-290. *)

HISTORY_LIMIT == 50

\* Every arrangement of the set S in a sequence.
RECURSIVE Arrangements(_)
Arrangements(S) ==
    IF S = {} THEN {<<>>}
    ELSE UNION {{<<x>> \o s : s \in Arrangements(S \ {x})} : x \in S}

\* A find with no filter; the property of C6 tells it from the code's.
find_all(docs, username) == DOMAIN docs

\* find({"username": username}): the positions of the matching documents.
find(docs, username) == {i \in DOMAIN docs : docs[i].username = username}

\* sort("timestamp", -1): the orders MongoDB may return the documents at
\* positions `idx` in.  Documents with equal sort keys come in any order.
RECURSIVE sort_timestamp_desc(_, _)
sort_timestamp_desc(docs, idx) ==
    IF idx = {} THEN {<<>>}
    ELSE LET newest == {i \in idx : \A j \in idx : docs[j].timestamp <= docs[i].timestamp}
         IN {a \o b : a \in Arrangements(newest),
                      b \in sort_timestamp_desc(docs, idx \ newest)}

\* A cursor with no limit; the property of C7 tells it from the code's.
limit_none(s, n) == s

\* limit(50).to_list(50)
limit(s, n) == SubSeq(s, 1, Min(n, Len(s)))

HistoryResponse(username, asked, docs) ==
    [kind |-> "history", status |-> 200, username |-> username, asked |-> asked,
     predictions |-> docs]

HistoryFailed ==
    [kind |-> "history", status |-> 500, detail |-> "Failed to fetch history"]

\* The `limit` values a client may put in the query string; the route
\* declares no such parameter.
AskedLimits == {2}

\* GET /api/predictions/history.  `asked` is a query parameter of the
\* client's, `readable` whether the find succeeds.
History(credentials, asked, readable) ==
    LET username == verify_token(credentials) IN
    /\ model # "Unset"
    /\ IF username = Unauthorized
       THEN resp' = NotAuthenticated("history")
       ELSE IF ~readable
       THEN resp' = HistoryFailed
       ELSE \E order \in sort_timestamp_desc(predictions, find(predictions, username)) :
              resp' = HistoryResponse(username, asked,
                         [k \in 1..Len(limit(order, HISTORY_LIMIT)) |->
                             predictions[limit(order, HISTORY_LIMIT)[k]]])
    /\ UNCHANGED <<artifact, model, fitted, clock, nextId, calls, classified, lost,
                   inflight, predictions, notifications>>

----------------------------------------------------------------------------

\* Tokens that verify_token accepts.
ValidTokens == {c \in Tokens : verify_token(c) # Unauthorized}

\* The request-level specification: every handler, every kind of artifact,
\* requests interleaving at their awaits.
Budget == calls < MaxRequests /\ nextId <= MaxRequests

Next ==
    \/ Startup
    \/ clock < MaxClock /\ Tick
    \/ Budget /\ \E c \in Tokens, r \in Requests : PredictCall(c, r)
    \/ \E ctx \in inflight, stored \in BOOLEAN : PredictReturn(ctx, stored)
    \/ Budget /\ \E c \in Tokens, r \in NotificationRequests : NotifyCall(c, r)
    \/ \E ctx \in inflight, stored \in BOOLEAN : NotifyReturn(ctx, stored)
    \/ \E c \in Tokens, asked \in AskedLimits, readable \in BOOLEAN :
          History(c, asked, readable)

Spec == Init /\ [][Next]_vars

\* The rule-level specification: no trained model, one request after the
\* other, its measurement drawn from the grid around the thresholds.
InitRule == Init /\ artifact # "valid"

NextRule ==
    \/ Startup
    \/ /\ calls < MaxRuleRequests
       /\ inflight = {}
       /\ \E r \in RuleGrid : PredictCall("tok_alice", r)
    \/ \E ctx \in inflight, stored \in BOOLEAN : PredictReturn(ctx, stored)

SpecRule == InitRule /\ [][NextRule]_vars

\* The history specification: predictions of two users that overlap in
\* time, and the retrieval.
InitHist == Init /\ artifact = "absent"

NextHist ==
    \/ Startup
    \/ clock < MaxHistClock /\ Tick
    \/ /\ nextId <= MaxHistRequests
       /\ \E c \in ValidTokens : PredictCall(c, ScenarioA)
    \/ \E ctx \in inflight, stored \in BOOLEAN : PredictReturn(ctx, stored)
    \/ \E c \in ValidTokens, asked \in AskedLimits, readable \in BOOLEAN :
          History(c, asked, readable)

SpecHist == InitHist /\ [][NextHist]_vars

\* The limit specification: a store that grows past HISTORY_LIMIT.  Up to
\* two requests of either user fall on the first instant; from then on
\* alice sends one request per instant, each stored before the next.
RequestAt(now) == \E i \in DOMAIN predictions : predictions[i].timestamp = now

NextLimit ==
    \/ Startup
    \/ inflight = {} /\ RequestAt(clock) /\ Tick
    \/ /\ inflight = {}
       /\ Len(predictions) < MaxLimitRecords
       /\ IF clock = 0
          THEN Len(predictions) < 2 /\ \E c \in ValidTokens : PredictCall(c, ScenarioA)
          ELSE ~RequestAt(clock) /\ PredictCall("tok_alice", ScenarioA)
    \/ \E ctx \in inflight : PredictReturn(ctx, TRUE)
    \/ \E c \in ValidTokens, asked \in AskedLimits : History(c, asked, TRUE)

SpecLimit == InitHist /\ [][NextLimit]_vars

\* The field-level specification: no trained model; a reference measurement
\* first, then measurements that differ from a reference in the fields the
\* rules do not read, sent by either user, one request after the other.
MaxFieldRequests == 2

\* The fields the four conditions read: lines 200-208.
RuleFields == {"pH", "Turbidity", "O2", "NH4"}

\* A second value for each of the other 13 fields: those of the test's
\* good-water payload, and another date.
Alternative ==
    [Location |-> "Urban_Area", Source_Type |-> "Treated_Water", BSK5 |-> 20,
     Suspended |-> 50, NO3 |-> 10, NO2 |-> 1, SO4 |-> 250, PO4 |-> 2,
     CL |-> 150, Temperature |-> 220, Year |-> 2025, Month |-> 1, Day |-> 1]

Vary(base, fields) ==
    [f \in DOMAIN base |-> IF f \in fields THEN Alternative[f] ELSE base[f]]

References == {ScenarioC, ScenarioD}

FieldRequests ==
    {Vary(base, fields) :
        base \in References,
        fields \in {{}} \cup {{f} : f \in DOMAIN Alternative} \cup {DOMAIN Alternative}}

InitFields == Init /\ artifact # "valid"

NextFields ==
    \/ Startup
    \/ /\ calls < MaxFieldRequests
       /\ inflight = {}
       /\ \E c \in ValidTokens :
             \E r \in IF calls = 0 THEN References ELSE FieldRequests :
                PredictCall(c, r)
    \/ \E ctx \in inflight, stored \in BOOLEAN : PredictReturn(ctx, stored)

SpecFields == InitFields /\ [][NextFields]_vars

\* The validation specification: bodies with fields left out, from callers
\* with and without a valid token, against either classifier.
MaxValidRequests == 1

NextValid ==
    \/ Startup
    \/ \E c \in Tokens, body \in PartialBodies : PredictCall(c, body)
    \/ /\ calls < MaxValidRequests
       /\ \E c \in Tokens, body \in Requests : PredictCall(c, body)
    \/ \E ctx \in inflight, stored \in BOOLEAN : PredictReturn(ctx, stored)

SpecValid == Init /\ [][NextValid]_vars

----------------------------------------------------------------------------
(* Properties. *)

IsPredictionResult(r) == r.kind = "predict" /\ r.status = 200
IsHistoryResult(r) == r.kind = "history" /\ r.status = 200
PredictInflight == {ctx \in inflight : ctx.kind = "predict"}
Last(s) == s[Len(s)]

\* The four conditions of the rule-based variant that hold on measurement m,
\* with the thresholds in tenths.
C1_Violations(m) ==
    {c \in {"pH", "Turbidity", "O2", "NH4"} :
        \/ c = "pH" /\ m.pH # NaN /\ (m.pH < 65 \/ m.pH > 85)
        \/ c = "Turbidity" /\ m.Turbidity # NaN /\ m.Turbidity > 100
        \/ c = "O2" /\ m.O2 # NaN /\ m.O2 < 50
        \/ c = "NH4" /\ m.NH4 # NaN /\ m.NH4 > 20}

C1_Expected(m) ==
    IF Cardinality(C1_Violations(m)) >= 2
    THEN [prediction |-> 1, confidence |-> 85]
    ELSE [prediction |-> 0, confidence |-> 75]

C1_Agrees(r, m) ==
    /\ r.prediction = C1_Expected(m).prediction
    /\ r.confidence = C1_Expected(m).confidence

\* C1: with no trained model loaded, every classification (the response a
\* handler is about to return, the response returned, the record stored)
\* is label 1 with confidence 0.85 exactly when at least two of the four
\* strict conditions hold on the measurement, and label 0 with confidence
\* 0.75 otherwise; a value on a threshold does not count.
THM_C1 ==
    model = None =>
        /\ \A ctx \in PredictInflight :
              /\ C1_Agrees(ctx.response, ctx.record.water_parameters)
              /\ C1_Agrees(ctx.record, ctx.record.water_parameters)
        /\ \A i \in DOMAIN predictions :
              C1_Agrees(predictions[i], predictions[i].water_parameters)
        /\ IsPredictionResult(resp) =>
              /\ predictions # <<>>
              /\ C1_Agrees(resp, Last(predictions).water_parameters)

\* A measurement with pH on its threshold 8.5, turbidity above 10, oxygen on
\* its threshold 5 and ammonium on its threshold 2 was answered label 0.
W_C1 ==
    /\ IsPredictionResult(resp)
    /\ resp.prediction = 0
    /\ predictions # <<>>
    /\ Last(predictions).water_parameters = Measurement(85, 101, 50, 20)

\* C2: when the insert of a prediction record fails, the response of that
\* request still carries the classification computed for it.
CE_C2 ==
    [][\A ctx \in PredictInflight :
          (ctx \notin inflight' /\ predictions' = predictions) =>
              /\ "prediction" \in DOMAIN resp'
              /\ resp'.prediction = ctx.record.prediction
              /\ resp'.confidence = ctx.record.confidence
              /\ resp'.risk_level = ctx.record.risk_level]_vars

\* C3: with the artifact absent or unloadable, start-up can complete, it
\* leaves the rule-based classifier in use, and a predict request fails only
\* because its insert failed.
THM_C3 ==
    artifact \in {"absent", "corrupt"} =>
        /\ model = "Unset" => ENABLED Startup
        /\ model \in {"Unset", None}
        /\ (resp.kind = "predict" /\ resp.status = 500) => resp.cause = "storage"
        /\ \A ctx \in PredictInflight :
              C1_Agrees(ctx.response, ctx.record.water_parameters)

\* The artifact failed to load and a predict request was answered.
W_C3 ==
    /\ artifact = "corrupt"
    /\ model = None
    /\ IsPredictionResult(resp)

C4_Tier(r) ==
    /\ r.risk_level = "HIGH" <=> r.prediction = 1
    /\ r.risk_level = "LOW" <=> r.prediction = 0

\* C4: in every predict response and every prediction record, stored or
\* about to be, the tier is HIGH exactly when the label is 1 and LOW exactly
\* when it is 0.
THM_C4 ==
    /\ IsPredictionResult(resp) => C4_Tier(resp)
    /\ \A i \in DOMAIN predictions : C4_Tier(predictions[i])
    /\ \A ctx \in PredictInflight : C4_Tier(ctx.record) /\ C4_Tier(ctx.response)

\* The trained model answered label 1 and the response says HIGH, after a
\* record with label 0 and tier LOW was stored.
W_C4 ==
    /\ model = "CatBoost"
    /\ IsPredictionResult(resp)
    /\ resp.prediction = 1
    /\ resp.risk_level = "HIGH"
    /\ \E i \in DOMAIN predictions :
          predictions[i].prediction = 0 /\ predictions[i].risk_level = "LOW"

\* C5 as stated: once no predict request is in flight, the store holds as
\* many records as classifications succeeded.
CE_C5 == PredictInflight = {} => Len(predictions) = classified

\* C5, amended: the store holds one record for each classification that
\* succeeded and whose insert succeeded, and none for any other request.
THM_C5 ==
    /\ Len(predictions) + lost + Cardinality(PredictInflight) = classified
    /\ classified <= calls
    /\ \A i, j \in DOMAIN predictions :
          predictions[i].id = predictions[j].id => i = j

\* Two classifications succeeded; one insert failed, one record was stored.
W_C5 ==
    /\ PredictInflight = {}
    /\ classified = 2
    /\ lost = 1
    /\ Len(predictions) = 1

\* The positions in db.predictions of the records of `username`, and the
\* position of a record (ids are unique).
Owned(username) == {i \in DOMAIN predictions : predictions[i].username = username}
Position(record) == CHOOSE i \in DOMAIN predictions : predictions[i].id = record.id

NewestFirst(docs) ==
    \A k, l \in DOMAIN docs : k < l => docs[k].timestamp >= docs[l].timestamp

\* C6: a history response holds only stored records of the requesting user,
\* in non-increasing order of timestamp, whatever else the store holds.
THM_C6 ==
    IsHistoryResult(resp) =>
        /\ \A k \in DOMAIN resp.predictions :
              /\ resp.predictions[k].username = resp.username
              /\ \E i \in DOMAIN predictions : predictions[i] = resp.predictions[k]
        /\ NewestFirst(resp.predictions)

\* alice asked after bob's record was inserted between her two, which carry
\* different timestamps.
W_C6 ==
    /\ IsHistoryResult(resp)
    /\ resp.username = "alice"
    /\ Len(predictions) = 3
    /\ predictions[2].username = "bob"
    /\ Len(resp.predictions) = 2
    /\ resp.predictions[1].timestamp > resp.predictions[2].timestamp

CE_C8 ==
    IsHistoryResult(resp) =>
        \A k, l \in DOMAIN resp.predictions :
            (k < l /\ resp.predictions[k].timestamp = resp.predictions[l].timestamp)
                => Position(resp.predictions[k]) > Position(resp.predictions[l])

IsPrefix(s, t) == Len(s) <= Len(t) /\ \A i \in DOMAIN s : s[i] = t[i]

\* C9: no step changes or removes a stored prediction or notification
\* record: each collection only grows at its end.
THM_C9 ==
    [][IsPrefix(predictions, predictions') /\ IsPrefix(notifications, notifications')]_vars

\* A prediction and a notification are stored and a history was served.
W_C9 ==
    /\ predictions # <<>>
    /\ notifications # <<>>
    /\ IsHistoryResult(resp)

THM_C11 ==
    [][/\ resp'.status = 422 =>
              /\ resp'.loc # {}
              /\ UNCHANGED <<calls, classified, fitted, nextId, inflight,
                             predictions, notifications>>
       /\ \A ctx \in {x \in inflight' : x.kind = "predict"} :
              /\ DOMAIN ctx.body = DOMAIN ScenarioA
              /\ ctx.record.water_parameters = ctx.body
       /\ calls' # calls =>
              \/ inflight' # inflight
              \/ resp'.status = 500]_vars

\* The body without Day was answered 422 naming Day, by a server that has
\* classified nothing.
W_C11 ==
    /\ resp.kind = "predict"
    /\ resp.status = 422
    /\ resp.loc = {"Day"}
    /\ calls = 0
    /\ predictions = <<>>

\* The prediction records there are: stored, or held by a suspended handler.
AllRecords ==
    {predictions[i] : i \in DOMAIN predictions} \cup {ctx.record : ctx \in PredictInflight}

SameClassification(x, y) ==
    /\ x.prediction = y.prediction
    /\ x.confidence = y.confidence
    /\ x.risk_level = y.risk_level

\* What the classifier chosen at start-up answers for measurement m.
C12_Own(m) == IF model = None THEN C1_Expected(m) ELSE fitted[m]

\* C12: under every interleaving, (a) no request changes the classifier
\* chosen at start-up nor what the loaded model answers, (b) every record
\* carries the classification of its own measurement, so that records of the
\* same measurement agree, and its own caller, and (c) a request answered 200
\* has added its record at the end of the store, which keeps every record
\* it held.
THM_C12 ==
    [][/\ model # "Unset" => model' = model
       /\ \A m \in DOMAIN fitted : m \in DOMAIN fitted' /\ fitted'[m] = fitted[m]
       /\ \A x \in AllRecords' :
             /\ x.prediction = C12_Own(x.water_parameters)'.prediction
             /\ x.confidence = C12_Own(x.water_parameters)'.confidence
       /\ \A x, y \in AllRecords' :
             x.water_parameters = y.water_parameters => SameClassification(x, y)
       /\ \A ctx \in PredictInflight' :
             /\ ctx.record.water_parameters = ctx.body
             /\ ctx.credentials = "tok_alice" => ctx.record.username = "alice"
             /\ ctx.credentials = "tok_bob" => ctx.record.username = "bob"
       /\ IsPredictionResult(resp') =>
             \E ctx \in PredictInflight :
                 /\ ctx \notin inflight'
                 /\ resp' = ctx.response
                 /\ predictions' = Append(predictions, ctx.record)
       /\ IsPrefix(predictions, predictions')]_vars

\* Two requests of different users with different measurements overlapped:
\* the one called second was stored first, and both were answered.
W_C12 ==
    /\ Len(predictions) = 2
    /\ predictions[1].id = 2
    /\ predictions[2].id = 1
    /\ predictions[1].username # predictions[2].username
    /\ predictions[1].water_parameters # predictions[2].water_parameters
    /\ predictions[1].prediction # predictions[2].prediction
    /\ IsPredictionResult(resp)

NotifyInflight == {ctx \in inflight : ctx.kind = "notify"}

\* The notification record of the request a suspended handler serves.
C14_Faithful(ctx) ==
    /\ ctx.record.location = ctx.request.location
    /\ ctx.record.risk_level = ctx.request.risk_level
    /\ ctx.record.message = ctx.request.message
    /\ ctx.credentials = "tok_alice" => ctx.record.triggered_by = "alice"
    /\ ctx.credentials = "tok_bob" => ctx.record.triggered_by = "bob"
    /\ ctx.credentials \in {"tok_alice", "tok_bob"}

\* C14: a notify request ends either with its one record, holding the
\* request's location, tier and message and the caller's identity, added to
\* the store and a success answer with that record's id, or with a 500 answer
\* and the store as it was; nothing else adds a notification record.
THM_C14 ==
    [][/\ \A ctx \in NotifyInflight' : C14_Faithful(ctx)
       /\ \A ctx \in NotifyInflight :
             ctx \notin inflight' =>
                 \/ /\ resp'.kind = "notify"
                    /\ resp'.status = 200
                    /\ resp'.result = "success"
                    /\ resp'.notification_id = ctx.record.id
                    /\ notifications' = Append(notifications, ctx.record)
                    /\ \A i \in DOMAIN notifications : notifications[i].id # ctx.record.id
                 \/ /\ resp'.kind = "notify"
                    /\ resp'.status = 500
                    /\ notifications' = notifications
       /\ notifications' # notifications =>
             \E ctx \in NotifyInflight : ctx \notin inflight']_vars

\* bob's notify request was answered with the id of the record now stored.
W_C14 ==
    /\ resp.kind = "notify"
    /\ resp.status = 200
    /\ Len(notifications) = 1
    /\ resp.notification_id = notifications[1].id
    /\ notifications[1].triggered_by = "bob"
    /\ notifications[1].location = "Rural_Area"
    /\ notifications[1].risk_level = "HIGH"
    /\ notifications[1].message = "Boil water"

\* C15: a history retrieval leaves both stores as they are, and a second
\* retrieval for the same user, with nothing appended in between, answers
\* the same sequence of records.
CE_C15 ==
    [][/\ IsHistoryResult(resp') => UNCHANGED <<predictions, notifications>>
       /\ (IsHistoryResult(resp) /\ IsHistoryResult(resp')
             /\ resp'.username = resp.username)
             => resp'.predictions = resp.predictions]_vars

C16_Fields ==
    {"Location", "Source_Type", "NH4", "BSK5", "Suspended", "O2", "NO3", "NO2",
     "SO4", "PO4", "CL", "pH", "Turbidity", "Temperature", "Year", "Month", "Day"}

\* The record a handler built agrees with the response it will send and
\* with the request it serves.
C16_Agrees(ctx) ==
    /\ ctx.record.prediction = ctx.response.prediction
    /\ ctx.record.confidence = ctx.response.confidence
    /\ ctx.record.risk_level = ctx.response.risk_level
    /\ DOMAIN ctx.record.water_parameters = C16_Fields
    /\ \A f \in C16_Fields : ctx.record.water_parameters[f] = ctx.body[f]
    /\ ctx.credentials = "tok_alice" => ctx.record.username = "alice"
    /\ ctx.credentials = "tok_bob" => ctx.record.username = "bob"
    /\ ctx.credentials \in {"tok_alice", "tok_bob"}

\* C16: every prediction record is the one its handler built, which agrees
\* with the response of the same request in label, confidence and tier,
\* holds all 17 fields of the body sent, and carries the caller's verified
\* identity; the response sent with it is that handler's.
THM_C16 ==
    [][/\ \A ctx \in PredictInflight' : C16_Agrees(ctx)
       /\ predictions' # predictions =>
             \E ctx \in PredictInflight :
                 /\ ctx \notin inflight'
                 /\ predictions' = Append(predictions, ctx.record)
                 /\ resp' = ctx.response
                 /\ resp'.status = 200]_vars

\* bob's high-risk measurement was stored and answered: record and response
\* say label 1, 0.85, HIGH.
W_C16 ==
    /\ IsPredictionResult(resp)
    /\ predictions # <<>>
    /\ Last(predictions).username = "bob"
    /\ Last(predictions).water_parameters = ScenarioC
    /\ Last(predictions).prediction = 1
    /\ resp.prediction = 1
    /\ resp.confidence = 85
    /\ Last(predictions).confidence = 85
    /\ resp.risk_level = "HIGH"
    /\ Last(predictions).risk_level = "HIGH"

\* The classifications made so far that are still visible: the records
\* stored, the record and the response of a suspended handler, and the
\* response just sent; each with the measurement it was made from.
C17_Classified ==
    {[m |-> predictions[i].water_parameters, username |-> predictions[i].username,
      prediction |-> predictions[i].prediction,
      confidence |-> predictions[i].confidence] : i \in DOMAIN predictions}
    \cup {[m |-> ctx.body, username |-> ctx.record.username,
           prediction |-> ctx.record.prediction,
           confidence |-> ctx.record.confidence] : ctx \in PredictInflight}
    \cup {[m |-> ctx.body, username |-> ctx.record.username,
           prediction |-> ctx.response.prediction,
           confidence |-> ctx.response.confidence] : ctx \in PredictInflight}
    \cup IF IsPredictionResult(resp) /\ predictions # <<>>
         THEN {[m |-> Last(predictions).water_parameters,
                username |-> Last(predictions).username,
                prediction |-> resp.prediction, confidence |-> resp.confidence]}
         ELSE {}

C17_SameFour(m1, m2) == \A f \in RuleFields : m1[f] = m2[f]

\* C17: with no trained model loaded, any two classifications of
\* measurements that agree on pH, Turbidity, O2 and NH4 have the same label
\* and the same confidence, whatever the other 13 fields, whoever sent them
\* and whatever the store held when each was made.
THM_C17 ==
    model = None =>
        \A a \in C17_Classified : \A b \in C17_Classified :
            C17_SameFour(a.m, b.m) =>
                /\ a.prediction = b.prediction
                /\ a.confidence = b.confidence

\* alice's reference measurement and bob's, which differs from it in every
\* one of the other 13 fields, are both stored, both label 1 at 0.85.
W_C17 ==
    /\ model = None
    /\ Len(predictions) = 2
    /\ predictions[1].username = "alice"
    /\ predictions[1].water_parameters = ScenarioC
    /\ predictions[2].username = "bob"
    /\ predictions[2].water_parameters = Vary(ScenarioC, DOMAIN Alternative)
    /\ \A f \in DOMAIN Alternative :
          predictions[1].water_parameters[f] # predictions[2].water_parameters[f]
    /\ predictions[1].prediction = 1
    /\ predictions[2].prediction = 1
    /\ predictions[1].confidence = 85
    /\ predictions[2].confidence = 85

====
